---------------------------- MODULE Spec2Model ----------------------------
(***************************************************************************)
(* A model of src/liquid.js: the "liquid" particle background (palette     *)
(* registry, colour model, particles, pointer tracker, mood controller,    *)
(* animation loop).                                                        *)
(*                                                                         *)
(* Numbers.  JavaScript numbers are IEEE-754 doubles.                      *)
(*  - The colour channels are modelled as doubles, bit for bit: a double   *)
(*    is a 53-bit mantissa (four 14-bit limbs) and an exponent, and the    *)
(*    operations round to nearest, ties to even, as the hardware does.     *)
(*  - Positions, velocities and the pointer go through Math.cos, Math.sin, *)
(*    Math.sqrt and Math.atan2, whose results are implementation           *)
(*    approximations; they are modelled in fixed point, one unit being     *)
(*    1/Unit of a pixel, every product rounded to the nearest unit.        *)
(***************************************************************************)
EXTENDS Integers, Sequences, FiniteSets, TLC

(***************************************************************************)
(* Non-negative IEEE-754 doubles.  [m, e] is the number m * 2^e, where m   *)
(* is a mantissa of exactly MantBits bits held in four limbs of LimbBits   *)
(* bits, the least significant first; zero is FZero.  Exact results are    *)
(* computed in eight limbs and rounded once, to nearest, ties to even.     *)
(* The colour values are far from the subnormal and the overflow ranges.   *)
(***************************************************************************)
LimbBits == 14
Limb == 16384
MantBits == 53

Pow2Table == <<1, 2, 4, 8, 16, 32, 64, 128, 256, 512, 1024, 2048, 4096, 8192,
               16384>>
Pow2(k) == Pow2Table[k + 1]


LimbAt(a, i) == IF i >= 1 /\ i <= Len(a) THEN a[i] ELSE 0

\* the number of bits of a limb
Bits(n) == Cardinality({k \in 0..(LimbBits - 1) : Pow2(k) <= n})

\* the limbs of the number whose columns are c (each column may exceed a
\* limb, or be negative while the number is not)
Carry8(c) ==
    LET t1 == c[1]
        t2 == c[2] + (t1 \div Limb)
        t3 == c[3] + (t2 \div Limb)
        t4 == c[4] + (t3 \div Limb)
        t5 == c[5] + (t4 \div Limb)
        t6 == c[6] + (t5 \div Limb)
        t7 == c[7] + (t6 \div Limb)
        t8 == c[8] + (t7 \div Limb)
    IN  <<t1 % Limb, t2 % Limb, t3 % Limb, t4 % Limb,
          t5 % Limb, t6 % Limb, t7 % Limb, t8 % Limb>>

\* the columns of a * 2^s
Shl8(a, s) ==
    LET ls == s \div LimbBits
        bs == s % LimbBits
    IN  [j \in 1..8 |-> LimbAt(a, j - ls) * Pow2(bs)]

\* the low four limbs of floor(a / 2^k)
Shr4(a, k) ==
    LET ls == k \div LimbBits
        bs == k % LimbBits
    IN  [j \in 1..4 |->
            (LimbAt(a, j + ls) \div Pow2(bs))
            + (LimbAt(a, j + ls + 1) % Pow2(bs)) * Pow2(LimbBits - bs)]

\* a + 1 for four limbs; the top limb takes the last carry
Inc4(a) ==
    LET t1 == a[1] + 1
        t2 == a[2] + (t1 \div Limb)
        t3 == a[3] + (t2 \div Limb)
        t4 == a[4] + (t3 \div Limb)
    IN  <<t1 % Limb, t2 % Limb, t3 % Limb, t4>>

\* the index of the highest limb of a that is not zero, or 0
TopLimb(a) ==
    IF \A i \in 1..8 : a[i] = 0 THEN 0
    ELSE CHOOSE i \in 1..8 : a[i] # 0 /\ \A j \in (i + 1)..8 : a[j] = 0

BitLenFrom(a, top) ==
    IF top = 0 THEN 0 ELSE (top - 1) * LimbBits + Bits(a[top])

\* the number of bits of an eight-limb number
BitLen(a) == BitLenFrom(a, TopLimb(a))

\* a / 2^k for k > 0, rounded to the nearest integer, ties to even, in four
\* limbs; q is floor(a / 2^k)
RoundShr(a, k, q) ==
    LET ls   == (k - 1) \div LimbBits
        bs   == (k - 1) % LimbBits
        half == (a[ls + 1] \div Pow2(bs)) % 2 = 1
        rest == \/ a[ls + 1] % Pow2(bs) # 0
                \/ \E j \in 1..ls : a[j] # 0
    IN  IF half /\ (rest \/ q[1] % 2 = 1) THEN Inc4(q) ELSE q

\* the double m * 2^e for a rounded mantissa m, which may have reached
\* 2^MantBits
Renormalize(m, e) ==
    IF m[4] >= Pow2(MantBits - 3 * LimbBits)
    THEN [m |-> <<0, 0, 0, Pow2(MantBits - 3 * LimbBits - 1)>>, e |-> e + 1]
    ELSE [m |-> m, e |-> e]

\* the double nearest to a * 2^e, for an eight-limb number a of len bits
FRoundLen(a, e, len) ==
    IF len = 0 THEN [m |-> <<0, 0, 0, 0>>, e |-> 0]
    ELSE IF len <= MantBits
    THEN [m |-> SubSeq(Carry8(Shl8(a, MantBits - len)), 1, 4),
          e |-> e - (MantBits - len)]
    ELSE Renormalize(RoundShr(a, len - MantBits, Shr4(a, len - MantBits)),
                     e + (len - MantBits))

FRound(a, e) == FRoundLen(a, e, BitLen(a))

FZero == [m |-> <<0, 0, 0, 0>>, e |-> 0]

FIsZero(x) == x.m = <<0, 0, 0, 0>>

\* the double of a natural number below Limb * Limb
FromNat(n) == FRound(<<n % Limb, n \div Limb, 0, 0, 0, 0, 0, 0>>, 0)

\* x * y
FMul(x, y) ==
    LET a == x.m
        b == y.m
    IN  FRound(Carry8(<<a[1] * b[1],
                        a[1] * b[2] + a[2] * b[1],
                        a[1] * b[3] + a[2] * b[2] + a[3] * b[1],
                        a[1] * b[4] + a[2] * b[3] + a[3] * b[2] + a[4] * b[1],
                        a[2] * b[4] + a[3] * b[3] + a[4] * b[2],
                        a[3] * b[4] + a[4] * b[3],
                        a[4] * b[4],
                        0>>),
               x.e + y.e)

\* hi + lo for two doubles that are not zero, hi.e >= lo.e; an addend below
\* a quarter of the other's last place changes nothing
AddAligned(hi, lo) ==
    IF hi.e - lo.e > MantBits + 2 THEN hi
    ELSE FRound(Carry8([j \in 1..8 |->
                    LimbAt(hi.m, j - ((hi.e - lo.e) \div LimbBits))
                        * Pow2((hi.e - lo.e) % LimbBits)
                    + LimbAt(lo.m, j)]),
                lo.e)

\* x + y
FAdd(x, y) ==
    IF FIsZero(x) THEN y
    ELSE IF FIsZero(y) THEN x
    ELSE IF x.e >= y.e THEN AddAligned(x, y)
    ELSE AddAligned(y, x)

\* x - y, for x >= y > 0 whose exponents are at most MantBits + 2 apart
FSub(x, y) ==
    FRound(Carry8([j \in 1..8 |->
               LimbAt(x.m, j - ((x.e - y.e) \div LimbBits))
                   * Pow2((x.e - y.e) % LimbBits)
               - LimbAt(y.m, j)]),
           y.e)

\* floor((n + 1) / 2) for the number n of the low two limbs of a
HalfUp(a) == (a[1] + Limb * a[2] + 1) \div 2

\* Math.round(x), that is floor(x + 0.5), for 0 <= x < Limb: x is m * 2^e
\* with e < 0, and floor(2x) is floor(m / 2^(-e - 1))
FRoundToInt(x) ==
    IF FIsZero(x) \/ (0 - x.e) - 1 >= 4 * LimbBits THEN 0
    ELSE HalfUp(Shr4(x.m, (0 - x.e) - 1))

(***************************************************************************)
(* Strings are sequences of one-character strings, so that the regular     *)
(* expressions of hexToRgb can be applied to them character by character.  *)
(***************************************************************************)
Null == [null |-> TRUE]
Undefined == [undefined |-> TRUE]
EmptyObject == [empty |-> TRUE]

Digits == {"0", "1", "2", "3", "4", "5", "6", "7", "8", "9"}
LowerHex == {"a", "b", "c", "d", "e", "f"}
UpperHex == {"A", "B", "C", "D", "E", "F"}

\* the class [a-f\d] read without the i flag; NoNullColor fails of it
HexClassNoIFlag == Digits \cup LowerHex

\* the class [a-f\d] under the i flag
HexClass == Digits \cup LowerHex \cup UpperHex

DigitVal(c) ==
    CASE c = "0" -> 0 [] c = "1" -> 1 [] c = "2" -> 2 [] c = "3" -> 3
      [] c = "4" -> 4 [] c = "5" -> 5 [] c = "6" -> 6 [] c = "7" -> 7
      [] c = "8" -> 8 [] c = "9" -> 9
      [] c \in {"a", "A"} -> 10 [] c \in {"b", "B"} -> 11
      [] c \in {"c", "C"} -> 12 [] c \in {"d", "D"} -> 13
      [] c \in {"e", "E"} -> 14 [] c \in {"f", "F"} -> 15

\* parseInt(s, 16) for a string of hexadecimal digits
RECURSIVE parseInt16(_)
parseInt16(s) ==
    IF Len(s) = 0 THEN 0
    ELSE 16 * parseInt16(SubSeq(s, 1, Len(s) - 1)) + DigitVal(s[Len(s)])

\* the text after the optional leading '#' of /^#?.../
AfterHash(hex) == IF Len(hex) > 0 /\ hex[1] = "#" THEN Tail(hex) ELSE hex

\* /^#?([a-f\d])([a-f\d])([a-f\d])$/i matches hex
shorthandRegex(hex) ==
    LET d == AfterHash(hex)
    IN  Len(d) = 3 /\ \A i \in 1..3 : d[i] \in HexClass

\* /^#?([a-f\d]{2})([a-f\d]{2})([a-f\d]{2})$/i matches hex
fullRegex(hex) ==
    LET d == AfterHash(hex)
    IN  Len(d) = 6 /\ \A i \in 1..6 : d[i] \in HexClass

\* a replacement that repeats the three digits instead of doubling each;
\* HexAccepted fails of it
ExpandShorthandInOrder(hex) ==
    IF shorthandRegex(hex)
    THEN LET d == AfterHash(hex)
         IN  <<d[1], d[2], d[3], d[1], d[2], d[3]>>
    ELSE hex

\* hex.replace(shorthandRegex, (m, r, g, b) => r + r + g + g + b + b)
ExpandShorthand(hex) ==
    IF shorthandRegex(hex)
    THEN LET d == AfterHash(hex)
         IN  <<d[1], d[1], d[2], d[2], d[3], d[3]>>
    ELSE hex

hexToRgb(hex) ==
    LET full == ExpandShorthand(hex)
    IN  IF fullRegex(full)
        THEN LET d == AfterHash(full)
             IN  [r |-> parseInt16(SubSeq(d, 1, 2)),
                  g |-> parseInt16(SubSeq(d, 3, 4)),
                  b |-> parseInt16(SubSeq(d, 5, 6))]
        ELSE Null

(***************************************************************************)
(* The palette registry.                                                   *)
(***************************************************************************)
PALETTES == [
    joy |->
        [name |-> "Joy",
         colors |-> <<<<"#", "F", "F", "D", "1", "6", "6">>,
                      <<"#", "F", "F", "D", "1", "6", "6">>,
                      <<"#", "0", "6", "D", "6", "A", "0">>,
                      <<"#", "1", "1", "8", "A", "B", "2">>,
                      <<"#", "E", "F", "4", "7", "6", "F">>>>,
         bg |-> <<"#", "1", "a", "1", "a", "0", "0">>],
    serenity |->
        [name |-> "Serenity",
         colors |-> <<<<"#", "E", "0", "F", "7", "F", "A">>,
                      <<"#", "B", "2", "E", "B", "F", "2">>,
                      <<"#", "8", "0", "D", "E", "E", "A">>,
                      <<"#", "4", "D", "D", "0", "E", "1">>,
                      <<"#", "2", "6", "C", "6", "D", "A">>>>,
         bg |-> <<"#", "0", "0", "1", "a", "1", "a">>],
    energy |->
        [name |-> "Energy",
         colors |-> <<<<"#", "F", "F", "5", "7", "3", "3">>,
                      <<"#", "C", "7", "0", "0", "3", "9">>,
                      <<"#", "9", "0", "0", "C", "3", "F">>,
                      <<"#", "F", "F", "C", "3", "0", "0">>,
                      <<"#", "F", "F", "5", "7", "3", "3">>>>,
         bg |-> <<"#", "1", "a", "0", "5", "0", "5">>],
    melancholy |->
        [name |-> "Melancholy",
         colors |-> <<<<"#", "2", "B", "2", "D", "4", "2">>,
                      <<"#", "8", "D", "9", "9", "A", "E">>,
                      <<"#", "E", "D", "F", "2", "F", "4">>,
                      <<"#", "E", "F", "2", "3", "3", "C">>,
                      <<"#", "D", "9", "0", "4", "2", "9">>>>,
         bg |-> <<"#", "0", "a", "0", "a", "0", "f">>],
    mystery |->
        [name |-> "Mystery",
         colors |-> <<<<"#", "3", "2", "0", "0", "4", "B">>,
                      <<"#", "5", "D", "0", "0", "8", "F">>,
                      <<"#", "8", "3", "0", "0", "D", "4">>,
                      <<"#", "B", "4", "0", "0", "F", "E">>,
                      <<"#", "E", "1", "A", "D", "F", "F">>>>,
         bg |-> <<"#", "0", "f", "0", "0", "1", "6">>]]

\* the keys the object literal defines
OwnKeys == DOMAIN PALETTES

\* PALETTES is an object literal, so a property read on it also finds what
\* Object.prototype defines; these are some of those names.
InheritedKeys == {"constructor", "toString", "valueOf", "hasOwnProperty"}

\* PALETTES[moodKey]: a palette, an inherited member (an object that is no
\* palette and has no colors or bg), or undefined
PalettesGet(moodKey) ==
    IF moodKey \in OwnKeys THEN PALETTES[moodKey]
    ELSE IF moodKey \in InheritedKeys THEN [inherited |-> moodKey]
    ELSE Undefined

IsPalette(v) == \E k \in OwnKeys : v = PALETTES[k]

(***************************************************************************)
(* Fixed point for positions, velocities and angles.                       *)
(***************************************************************************)
\* units per pixel, and per radian
Unit == 1000

Abs(a) == IF a < 0 THEN 0 - a ELSE a

\* a / b rounded to the nearest integer, for b > 0
RoundDiv(a, b) == (2 * a + b) \div (2 * b)

\* pi and its multiples, in units
HalfPi == 1571
Pi == 3142
TwoPi == 6283

\* cos of an angle of -pi/2 .. pi/2, in units, by its Taylor polynomial
CosSmall(a) ==
    LET x2 == RoundDiv(a * a, Unit)
        x4 == RoundDiv(x2 * x2, Unit)
        x6 == RoundDiv(x4 * x2, Unit)
    IN  Unit - RoundDiv(x2, 2) + RoundDiv(x4, 24) - RoundDiv(x6, 720)

\* Math.cos, Math.sin of an angle in units, the result in units
Cos(a) ==
    LET r == a % TwoPi
    IN  IF r <= HalfPi THEN CosSmall(r)
        ELSE IF r <= Pi + HalfPi THEN 0 - CosSmall(r - Pi)
        ELSE CosSmall(r - TwoPi)

Sin(a) == Cos(a + TwoPi - HalfPi)

\* floor(sqrt(n))
RECURSIVE SqrtBetween(_, _, _)
SqrtBetween(n, lo, hi) ==
    IF lo >= hi THEN lo
    ELSE LET mid == (lo + hi + 1) \div 2
         IN  IF mid * mid <= n THEN SqrtBetween(n, mid, hi)
                               ELSE SqrtBetween(n, lo, mid - 1)

Sqrt(n) == SqrtBetween(n, 0, 46340)

(***************************************************************************)
(* Bounds of the model.                                                    *)
(***************************************************************************)
\* particles in the pool (PARTICLE_COUNT in the source)
NumParticles == 2
\* frames run, the one animate() runs at startup included
MaxFrames == 3
\* input events delivered (pointer, touch, resize, mood button)
MaxEvents == 2
\* swatch elements in the page
NumSwatches == 2
\* length of the strings given to hexToRgb on its own
MaxHexLen == 7

\* window sizes, in pixels
Sizes == {<<800, 600>>, <<100, 100>>}
\* pointer and touch positions, in pixels
Points == {<<100, 80>>, <<700, 300>>}
\* Math.random() is a generator: it returns the next value of its stream.
\* The streams the generator may be on, their values in thousandths, each
\* taken round and round.  One Particle.reset draws x, y, vx, vy, radius,
\* colour, angle and speed; one pickColor draws an index.
Streams == <<
    <<900, 900, 0, 0, 0, 500, 0, 0,
      100, 100, 999, 999, 999, 999, 500, 999,
      0, 999, 250, 600, 450>>,
    <<100, 100, 999, 250, 999, 0, 500, 999,
      900, 500, 0, 500, 0, 700, 250, 0,
      999, 0, 450, 250, 600>> >>
\* keys given to setMood
MoodKeys == {"joy", "serenity", "nonexistent", "constructor"}
\* the characters of the strings given to hexToRgb on its own
HexChars == {"#", "0", "a", "F", "g"}

(***************************************************************************)
(* The state.                                                              *)
(***************************************************************************)
VARIABLES
    width, height,   \* let width, height, in pixels
    canvas,          \* canvas.width, canvas.height
    particles,       \* let particles
    random,          \* the stream Math.random() is on and its position
    mouse,           \* let mouse, x and y in units
    targetMouse,     \* let targetMouse, in units
    currentPalette,  \* let currentPalette
    background,      \* document.body.style.backgroundColor
    activeButton,    \* the data-mood of the button of class "active"
    swatches,        \* the --color of every swatch
    pending,         \* animation frame callbacks requested and not yet run
    pc,              \* the statement of the startup sequence to run next
    frames,          \* frames run so far
    events,          \* events delivered so far
    op,              \* the operation that ran last
    calls,           \* the calls the last frame made, in order
    reads,           \* what each update of the last frame read and computed
    hexIn, hexOut    \* an argument and result of hexToRgb on its own

vars == <<width, height, canvas, particles, random, mouse, targetMouse, currentPalette,
          background, activeButton, swatches, pending, pc, frames, events, op,
          calls, reads, hexIn, hexOut>>

Unset == [unset |-> TRUE]
NaNColor == [nan |-> TRUE]

IsRgb(c) == c \notin {Null, EmptyObject, NaNColor}

(***************************************************************************)
(* Colour interpolation.                                                   *)
(***************************************************************************)
FOne == FromNat(1)

\* the double the literal 0.05 denotes: 7205759403792794 * 2^-57
lerpSpeed == [m |-> <<6554, 9830, 6553, 1638>>, e |-> -57]

lerp(start, end, t) == FAdd(FMul(start, FSub(FOne, t)), FMul(end, t))

\* { ...rgb }: the channels as numbers; the spread of null is an empty object
Clone(rgb) ==
    IF rgb = Null THEN EmptyObject
    ELSE [r |-> FromNat(rgb.r), g |-> FromNat(rgb.g), b |-> FromNat(rgb.b)]

\* the three lerp assignments of update; a missing channel reads as undefined
\* and makes the result NaN
EaseColor(cur, tgt) ==
    IF ~IsRgb(cur) THEN NaNColor
    ELSE [r |-> lerp(cur.r, FromNat(tgt.r), lerpSpeed),
          g |-> lerp(cur.g, FromNat(tgt.g), lerpSpeed),
          b |-> lerp(cur.b, FromNat(tgt.b), lerpSpeed)]

(***************************************************************************)
(* Particle.                                                               *)
(***************************************************************************)
\* the value of the n-th call of Math.random() from now
Draw(rng, n) ==
    Streams[rng.stream][((rng.next + n - 2) % Len(Streams[rng.stream])) + 1]

\* the generator after n calls
Drawn(rng, n) ==
    [rng EXCEPT !.next = ((@ + n - 1) % Len(Streams[rng.stream])) + 1]

\* colors[Math.floor(Math.random() * colors.length)], u the draw
pickColor(palette, u) ==
    palette.colors[((u * Len(palette.colors)) \div 1000) + 1]

\* Particle.reset with the draws u, in the order the code makes them
reset(u, w, h, palette) ==
    LET radius == RoundDiv(u[5] * 50 * Unit, 1000) + 30 * Unit
        target == hexToRgb(pickColor(palette, u[6]))
    IN  [x |-> RoundDiv(u[1] * w * Unit, 1000),
         y |-> RoundDiv(u[2] * h * Unit, 1000),
         vx |-> RoundDiv((u[3] - 500) * 15 * Unit, 10000),
         vy |-> RoundDiv((u[4] - 500) * 15 * Unit, 10000),
         radius |-> radius,
         baseRadius |-> radius,
         targetRgb |-> target,
         currentRgb |-> Clone(target),
         angle |-> RoundDiv(u[7] * TwoPi, 1000),
         speed |-> RoundDiv(u[8] * Unit, 100000) + (Unit \div 200)]

forceRadius == 300

\* Math.sqrt(cx * cx + cy * cy), cx and cy in hundredths of a pixel and
\* below forceRadius pixels
Distance(cx, cy) == Sqrt(cx * cx + cy * cy)

\* (forceRadius - distance) / forceRadius in units, distance in hundredths
Force(distance) ==
    RoundDiv((forceRadius * 100 - distance) * Unit, forceRadius * 100)

\* the velocity v less Math.cos(angle) * force and Math.sin(angle) * force,
\* angle being Math.atan2(cy, cx): the direction is (cx, cy) / distance,
\* and Math.atan2(0, 0) is 0
Repel(v, cx, cy, distance) ==
    IF distance = 0
    THEN [vx |-> v.vx - Force(distance), vy |-> v.vy]
    ELSE [vx |-> v.vx - RoundDiv(cx * Force(distance), distance),
          vy |-> v.vy - RoundDiv(cy * Force(distance), distance)]

\* the interaction without the test of mouse.isActive; NoRepulsion fails
\* of it
InteractAlways(v, isActive, dx, dy) ==
    IF /\ Abs(dx) < forceRadius * Unit
       /\ Abs(dy) < forceRadius * Unit
    THEN LET cx == RoundDiv(dx, Unit \div 100)
             cy == RoundDiv(dy, Unit \div 100)
             Within(distance) ==
                 IF distance < forceRadius * 100
                 THEN Repel(v, cx, cy, distance) ELSE v
         IN  Within(Distance(cx, cy))
    ELSE v

\* the velocity after the mouse interaction; (dx, dy) is the vector from the
\* particle to the pointer, in units
Interact(v, isActive, dx, dy) ==
    IF /\ isActive
       /\ Abs(dx) < forceRadius * Unit
       /\ Abs(dy) < forceRadius * Unit
    THEN LET cx == RoundDiv(dx, Unit \div 100)
             cy == RoundDiv(dy, Unit \div 100)
             Within(distance) ==
                 IF distance < forceRadius * 100
                 THEN Repel(v, cx, cy, distance) ELSE v
         IN  Within(Distance(cx, cy))
    ELSE v

\* mouse.x += (targetMouse.x - mouse.x) * 0.1, and the same for y
EaseMouse(m, tm) ==
    [m EXCEPT !.x = m.x + RoundDiv(tm.x - m.x, 10),
              !.y = m.y + RoundDiv(tm.y - m.y, 10)]

\* the velocity after the organic float and the friction
Drift(p, angle) ==
    [vx |-> RoundDiv((p.vx + RoundDiv(Cos(angle) * 2, 100)) * 98, 100),
     vy |-> RoundDiv((p.vy + RoundDiv(Sin(angle) * 2, 100)) * 98, 100)]

\* the screen boundaries: the two tests on one coordinate, in order
WrapHigh(c, size, buffer) == IF c > size + buffer THEN 0 - buffer ELSE c

\* a wrap to the opposite edge itself, without the buffer; WrapAround fails
\* of it
WrapToEdge(c, size, buffer) ==
    IF c < 0 - buffer THEN size
    ELSE IF c > size + buffer THEN 0
    ELSE c

Wrap(c, size, buffer) ==
    WrapHigh(IF c < 0 - buffer THEN size + buffer ELSE c, size, buffer)

\* Particle.update of p, reading and writing the pointer m: the particle and
\* the pointer afterwards, and what the call read on its way
update(p, m, tm, w, h) ==
    LET Bounds(m1, x, y, v, radius) ==
            [p |-> [p EXCEPT !.currentRgb = EaseColor(p.currentRgb, p.targetRgb),
                             !.angle = p.angle + p.speed,
                             !.vx = v.vx,
                             !.vy = v.vy,
                             !.radius = radius,
                             !.x = Wrap(x, w * Unit, radius * 2),
                             !.y = Wrap(y, h * Unit, radius * 2)],
             mouse |-> m1,
             read |-> [mouse |-> m1, x |-> x, y |-> y,
                       width |-> w, height |-> h]]
        Mouse(m1, x, y, v) ==
            Bounds(m1, x, y,
                   Interact(v, m1.isActive, m1.x - x, m1.y - y),
                   p.radius + RoundDiv((p.baseRadius - p.radius) * 5, 100))
        Float(v) == Mouse(EaseMouse(m, tm), p.x + v.vx, p.y + v.vy, v)
    IN  Float(Drift(p, p.angle + p.speed))

\* update throws a TypeError when it reads a channel of a null colour
updateThrows(p) == p.targetRgb = Null \/ p.currentRgb = Null

\* Math.round of the three channels, as draw puts them in the colour string
Rounded(c) ==
    [r |-> FRoundToInt(c.r), g |-> FRoundToInt(c.g), b |-> FRoundToInt(c.b)]

\* draw throws when the colour is null or the colour string does not parse
drawThrows(p) == ~IsRgb(p.currentRgb)

\* what draw paints: the gradient's centre, radius and colour
draw(p) ==
    [x |-> p.x, y |-> p.y, radius |-> p.radius, color |-> Rounded(p.currentRgb)]

(***************************************************************************)
(* The animation loop.                                                     *)
(***************************************************************************)
Call(fn, arg) == [fn |-> fn, arg |-> arg]

\* p.draw() after p.update() returned u, for particle i
drawn(st, i, u) ==
    [particles |-> [st.particles EXCEPT ![i] = u.p],
     mouse |-> u.mouse,
     reads |-> Append(st.reads, u.read),
     calls |-> st.calls \o <<Call("update", i), Call("draw", i)>>,
     painted |-> IF drawThrows(u.p) THEN st.painted
                 ELSE Append(st.painted, draw(u.p)),
     threw |-> drawThrows(u.p)]

\* one turn of particles.forEach((p) => { p.update(); p.draw(); }), for
\* particle i; an exception ends the loop and the frame
eachParticle(st, i, tm, w, h) ==
    IF st.threw THEN st
    ELSE IF updateThrows(st.particles[i])
    THEN [st EXCEPT !.threw = TRUE, !.calls = Append(@, Call("update", i))]
    ELSE drawn(st, i, update(st.particles[i], st.mouse, tm, w, h))

\* an animate() that ends without requestAnimationFrame; LoopRunsForever
\* fails of it
noRequestFrame(st) ==
    [particles |-> st.particles,
     mouse |-> st.mouse,
     reads |-> st.reads,
     painted |-> st.painted,
     threw |-> st.threw,
     calls |-> st.calls,
     requested |-> 0]

\* the end of animate(): requestAnimationFrame(animate), unless it threw
requestFrame(st) ==
    [particles |-> st.particles,
     mouse |-> st.mouse,
     reads |-> st.reads,
     painted |-> st.painted,
     threw |-> st.threw,
     calls |-> IF st.threw THEN st.calls
               ELSE Append(st.calls, Call("requestAnimationFrame", 0)),
     requested |-> IF st.threw THEN 0 ELSE 1]

\* animate(): clearRect, the loop over the particles, requestAnimationFrame
animate(ps, m, tm, w, h) ==
    LET after[i \in 0..Len(ps)] ==
            IF i = 0
            THEN [particles |-> ps, mouse |-> m, reads |-> <<>>,
                  calls |-> <<Call("clearRect", 0)>>, painted |-> <<>>,
                  threw |-> FALSE]
            ELSE eachParticle(after[i - 1], i, tm, w, h)
    IN  requestFrame(after[Len(ps)])

(***************************************************************************)
(* The mood controller.                                                    *)
(***************************************************************************)
\* the page has one mood button for every key of the registry
ButtonMoods == OwnKeys

\* the swatch of index i (from 0) shows colors[i % colors.length]
SwatchColors(palette) ==
    [i \in 1..NumSwatches |->
        palette.colors[((i - 1) % Len(palette.colors)) + 1]]

\* setMood(moodKey); every pickColor takes one value of the generator
setMood(moodKey, st) ==
    LET found == PalettesGet(moodKey)
    IN  IF found = Undefined
        THEN [st EXCEPT !.threw = FALSE]
        ELSE IF IsPalette(found)
        THEN [random |-> Drawn(st.random, Len(st.particles)),
              currentPalette |-> found,
              activeButton |-> IF moodKey \in ButtonMoods THEN moodKey ELSE "",
              background |-> found.bg,
              particles |-> [i \in 1..Len(st.particles) |->
                  [st.particles[i] EXCEPT
                      !.targetRgb =
                          hexToRgb(pickColor(found, Draw(st.random, i)))]],
              swatches |-> SwatchColors(found),
              threw |-> FALSE]
        \* an inherited member: it is truthy and has neither bg nor colors.
        \* The style ignores the undefined background; pickColor of the
        \* first particle (or else the first swatch) reads colors.length of
        \* undefined and throws a TypeError.
        ELSE [st EXCEPT !.currentPalette = found,
                        !.activeButton = "",
                        !.threw = Len(st.particles) > 0 \/ NumSwatches > 0]

MoodState ==
    [currentPalette |-> currentPalette, activeButton |-> activeButton,
     background |-> background, particles |-> particles, random |-> random,
     swatches |-> swatches, threw |-> FALSE]

ApplyMood(moodKey) ==
    \E st \in {setMood(moodKey, MoodState)} :
        /\ random' = st.random
        /\ currentPalette' = st.currentPalette
        /\ activeButton' = st.activeButton
        /\ background' = st.background
        /\ particles' = st.particles
        /\ swatches' = st.swatches
        /\ op' = [name |-> "setMood", arg |-> <<moodKey>>, threw |-> st.threw]

ApplyFrame ==
    \E st \in {animate(particles, mouse, targetMouse, width, height)} :
        /\ particles' = st.particles
        /\ mouse' = st.mouse
        /\ calls' = st.calls
        /\ reads' = st.reads
        /\ canvas' = [canvas EXCEPT !.painted = st.painted]
        /\ pending' = (IF pc = "running" THEN pending - 1 ELSE pending)
                      + st.requested
        /\ frames' = frames + 1
        /\ op' = [name |-> "animate", arg |-> <<>>, threw |-> st.threw]

\* an operation that ran and did not throw, arg what it was given
Op(name, arg) == [name |-> name, arg |-> arg, threw |-> FALSE]

(***************************************************************************)
(* The state once the declarations and the first resize() have run.        *)
(***************************************************************************)
Loaded(size, stream) ==
    /\ width = size[1]
    /\ height = size[2]
    /\ canvas = [width |-> size[1], height |-> size[2], painted |-> <<>>]
    /\ particles = <<>>
    /\ random = [stream |-> stream, next |-> 1]
    /\ mouse = [x |-> 0, y |-> 0, isActive |-> FALSE]
    /\ targetMouse = [x |-> 0, y |-> 0]
    /\ currentPalette = PALETTES.joy
    /\ background = Unset
    /\ activeButton = ""
    /\ swatches = [i \in 1..NumSwatches |-> Unset]
    /\ pending = 0
    /\ pc = "initParticles"
    /\ frames = 0
    /\ events = 0
    /\ op = Op("load", <<>>)
    /\ calls = <<>>
    /\ reads = <<>>

Init ==
    /\ \E size \in Sizes, stream \in DOMAIN Streams : Loaded(size, stream)
    /\ hexIn = <<>>
    /\ hexOut = Unset

(***************************************************************************)
(* The startup sequence: initParticles(); setMood("joy"); animate();       *)
(***************************************************************************)
InitParticles ==
    /\ pc = "initParticles"
    /\ particles' = [i \in 1..NumParticles |->
                         reset([k \in 1..8 |-> Draw(random, 8 * (i - 1) + k)],
                               width, height, currentPalette)]
    /\ random' = Drawn(random, 8 * NumParticles)
    /\ pc' = "setMood"
    /\ op' = Op("initParticles", <<>>)
    /\ UNCHANGED <<width, height, canvas, mouse, targetMouse, currentPalette,
                   background, activeButton, swatches, pending, frames, events,
                   calls, reads, hexIn, hexOut>>

StartSetMood ==
    /\ pc = "setMood"
    /\ ApplyMood("joy")
    /\ pc' = "animate"
    /\ UNCHANGED <<width, height, canvas, mouse, targetMouse, pending, frames,
                   events, calls, reads, hexIn, hexOut>>

StartAnimate ==
    /\ pc = "animate"
    /\ ApplyFrame
    /\ pc' = "running"
    /\ UNCHANGED <<random, width, height, targetMouse, currentPalette, background,
                   activeButton, swatches, events, hexIn, hexOut>>

(***************************************************************************)
(* The callbacks, each run to completion once the script has run.          *)
(***************************************************************************)
\* the animation frame callback
Animate ==
    /\ pc = "running"
    /\ pending > 0
    /\ frames < MaxFrames
    /\ ApplyFrame
    /\ UNCHANGED <<random, width, height, targetMouse, currentPalette, background,
                   activeButton, swatches, pc, events, hexIn, hexOut>>

\* an event is delivered once the script has run
Deliver ==
    /\ pc = "running"
    /\ events < MaxEvents
    /\ events' = events + 1

\* a handler that records the position and leaves the flag; PointerFlag
\* fails of it
PointKeepsFlag(pt) ==
    /\ targetMouse' = [x |-> pt[1] * Unit, y |-> pt[2] * Unit]
    /\ mouse' = mouse

\* the pointer handlers write the raw position and the flag
Point(pt) ==
    /\ targetMouse' = [x |-> pt[1] * Unit, y |-> pt[2] * Unit]
    /\ mouse' = [mouse EXCEPT !.isActive = TRUE]

\* window 'mousemove': the position of the event
MouseMove ==
    /\ Deliver
    /\ \E pt \in Points : Point(pt) /\ op' = Op("mousemove", pt)
    /\ UNCHANGED <<width, height, canvas, particles, random, currentPalette,
                   background, activeButton, swatches, pending, pc, frames,
                   calls, reads, hexIn, hexOut>>

\* window 'touchstart': the position of the first touch
TouchStart ==
    /\ Deliver
    /\ \E pt \in Points : Point(pt) /\ op' = Op("touchstart", pt)
    /\ UNCHANGED <<width, height, canvas, particles, random, currentPalette,
                   background, activeButton, swatches, pending, pc, frames,
                   calls, reads, hexIn, hexOut>>

TouchEnd ==
    /\ Deliver
    /\ op' = Op("touchend", <<>>)
    /\ mouse' = [mouse EXCEPT !.isActive = FALSE]
    /\ UNCHANGED <<random, width, height, canvas, particles, targetMouse,
                   currentPalette, background, activeButton, swatches, pending,
                   pc, frames, calls, reads, hexIn, hexOut>>

\* setting canvas.width or canvas.height also clears the canvas
Resize ==
    /\ Deliver
    /\ \E size \in Sizes :
          /\ op' = Op("resize", size)
          /\ width' = size[1]
          /\ height' = size[2]
          /\ canvas' = [width |-> size[1], height |-> size[2],
                        painted |-> <<>>]
    /\ UNCHANGED <<random, particles, mouse, targetMouse, currentPalette, background,
                   activeButton, swatches, pending, pc, frames, calls, reads,
                   hexIn, hexOut>>

\* a click on a mood button, or any other call of setMood
SetMood ==
    /\ Deliver
    /\ \E moodKey \in MoodKeys : ApplyMood(moodKey)
    /\ UNCHANGED <<width, height, canvas, mouse, targetMouse, pending, pc,
                   frames, calls, reads, hexIn, hexOut>>

Next ==
    \/ InitParticles
    \/ StartSetMood
    \/ StartAnimate
    \/ Animate
    \/ MouseMove
    \/ TouchStart
    \/ TouchEnd
    \/ Resize
    \/ SetMood

Spec == Init /\ [][Next]_vars

\* a step of Animate as the frame counter shows it: a frame is due and
\* has run.  Once the script has run Animate alone adds to frames, it does
\* so in every step, and it is enabled exactly when a frame is due; so
\* these are the steps of Animate, and weak fairness of them is weak
\* fairness of Animate.
FrameRuns ==
    /\ pc = "running"
    /\ pending > 0
    /\ frames < MaxFrames
    /\ frames' = frames + 1

\* the display's refresh keeps running the pending frame callback
FairSpec == Spec /\ WF_frames(FrameRuns)

(***************************************************************************)
(* hexToRgb on its own, applied to every short string over HexChars.       *)
(***************************************************************************)
HexInputs == UNION {[1..n -> HexChars] : n \in 0..MaxHexLen}

HexInit ==
    /\ Loaded(<<800, 600>>, 1)
    /\ hexIn \in HexInputs
    /\ hexOut = Unset

CallHexToRgb ==
    /\ hexOut = Unset
    /\ hexOut' = hexToRgb(hexIn)
    /\ UNCHANGED <<random, width, height, canvas, particles, mouse, targetMouse,
                   currentPalette, background, activeButton, swatches, pending,
                   pc, frames, events, op, calls, reads, hexIn>>

HexNext == CallHexToRgb

HexSpec == HexInit /\ [][HexNext]_vars

(***************************************************************************)
(* Properties.  op is the operation whose step led to the state, so in an  *)
(* action formula op' names the operation of the step.                     *)
(***************************************************************************)
PointerOps == {"mousemove", "touchstart"}

\* C1: within one frame the smoothed pointer is eased toward the raw target
\* exactly once, so that after the frame it has closed 0.1 of the distance
\* there was, and every particle updated in the frame reads the same
\* smoothed position.
PointerEasedOncePerFrame ==
    [][(op'.name = "animate" /\ ~op'.threw) =>
          /\ mouse' = EaseMouse(mouse, targetMouse)
          /\ \A i, j \in 1..Len(reads') : reads'[i].mouse = reads'[j].mouse]_vars

\* C2: setMood with a key that PALETTES does not define raises no error and
\* leaves the active palette, the background, every targetRgb and the
\* swatches as they were.
UnknownMoodIgnored ==
    [][(op'.name = "setMood" /\ op'.arg[1] \notin OwnKeys) =>
          /\ ~op'.threw
          /\ currentPalette' = currentPalette
          /\ background' = background
          /\ swatches' = swatches
          /\ \A i \in 1..Len(particles) :
                 particles'[i].targetRgb = particles[i].targetRgb]_vars

\* the RGB values of the colours of a palette
PaletteRgbs(palette) ==
    {hexToRgb(palette.colors[k]) : k \in 1..Len(palette.colors)}

\* C3: once the startup's setMood("joy") has run, the active palette is a
\* palette of the registry and every particle's targetRgb is the RGB value
\* of one of its colours.
TargetInActivePalette ==
    pc \in {"animate", "running"} =>
        \E k \in OwnKeys :
            /\ currentPalette = PALETTES[k]
            /\ \A i \in 1..Len(particles) :
                   particles[i].targetRgb \in PaletteRgbs(PALETTES[k])

\* C4: mousemove and touchstart set mouse.isActive and record the position
\* of the event in targetMouse; touchend clears the flag and leaves
\* targetMouse; no other operation changes the flag, so a set flag stays
\* set until a touchend.
PointerFlag ==
    [][/\ op'.name \in PointerOps =>
              /\ mouse'.isActive
              /\ targetMouse' = [x |-> op'.arg[1] * Unit, y |-> op'.arg[2] * Unit]
       /\ op'.name = "touchend" =>
              /\ ~mouse'.isActive
              /\ targetMouse' = targetMouse
       /\ op'.name \notin PointerOps \cup {"touchend"} =>
              mouse'.isActive = mouse.isActive
       /\ (mouse.isActive /\ op'.name # "touchend") => mouse'.isActive]_vars

\* a touchend after a pointer event: the flag is down and the position kept
FlagClearedByTouchEnd ==
    /\ op.name = "touchend"
    /\ ~mouse.isActive
    /\ targetMouse.x > 0

\* what a frame over n particles calls, in order
FrameCalls(n) ==
    <<Call("clearRect", 0)>>
    \o [k \in 1..(2 * n) |->
           IF k % 2 = 1 THEN Call("update", (k + 1) \div 2)
           ELSE Call("draw", k \div 2)]
    \o <<Call("requestAnimationFrame", 0)>>

\* C5: once animate() has been started every frame clears the surface,
\* calls update then draw on each particle in pool order and requests one
\* next frame; one frame callback is pending after every frame and never
\* more than one, and after every frame a next frame is eventually run.
LoopRunsForever ==
    /\ [](pending <= 1)
    /\ [](frames > 0 =>
              /\ pending = 1
              /\ calls = FrameCalls(Len(particles)))
    /\ \A k \in 1..(MaxFrames - 1) : (frames = k) ~> (frames = k + 1)

\* the last frame the bound allows has run as the ones before it
FramesKeepRunning ==
    /\ frames = MaxFrames
    /\ op.name = "animate"
    /\ pending = 1
    /\ calls = FrameCalls(NumParticles)

\* the wrap of one coordinate c, stated as one conditional
Wrapped(c, size, buffer) ==
    IF c > size + buffer THEN 0 - buffer
    ELSE IF c < 0 - buffer THEN size + buffer
    ELSE c

\* C6: in every update, a coordinate that after the integration is beyond
\* size + 2 * radius becomes -2 * radius, one below -2 * radius becomes
\* size + 2 * radius, and any other is left; so after the update both
\* coordinates are within the surface widened by 2 * radius, for the size
\* the update read.
WrapAround ==
    op.name = "animate" =>
        \A i \in 1..Len(reads) :
            LET p == particles[i]
                rd == reads[i]
            IN  /\ p.x = Wrapped(rd.x, rd.width * Unit, 2 * p.radius)
                /\ p.y = Wrapped(rd.y, rd.height * Unit, 2 * p.radius)
                /\ 0 - 2 * p.radius <= p.x
                /\ p.x <= rd.width * Unit + 2 * p.radius
                /\ 0 - 2 * p.radius <= p.y
                /\ p.y <= rd.height * Unit + 2 * p.radius
                /\ rd.width = width
                /\ rd.height = height

\* a particle that left on the left has come back on the right
WrappedFromLeft ==
    /\ op.name = "animate"
    /\ \E i \in 1..Len(reads) :
           /\ reads[i].x < 0 - 2 * particles[i].radius
           /\ particles[i].x = width * Unit + 2 * particles[i].radius

\* the distance from (x, y) to the pointer m is not less than forceRadius
Far(m, x, y) ==
    \/ Abs(m.x - x) >= forceRadius * Unit
    \/ Abs(m.y - y) >= forceRadius * Unit
    \/ LET cx == RoundDiv(m.x - x, Unit \div 100)
           cy == RoundDiv(m.y - y, Unit \div 100)
       IN  cx * cx + cy * cy >= (forceRadius * 100) * (forceRadius * 100)

\* the previous velocity plus 0.02 of the cosine and sine of the advanced
\* angle, times 0.98
DampedDrift(p) ==
    [vx |-> RoundDiv((p.vx + RoundDiv(2 * Cos(p.angle + p.speed), 100)) * 98, 100),
     vy |-> RoundDiv((p.vy + RoundDiv(2 * Sin(p.angle + p.speed), 100)) * 98, 100)]

\* C7: an update that finds the pointer inactive, or the particle at a
\* distance of forceRadius or more from the smoothed pointer, leaves the
\* velocity at the damped drift result.
NoRepulsion ==
    [][(op'.name = "animate" /\ ~op'.threw) =>
          \A i \in 1..Len(particles) :
              (\/ ~reads'[i].mouse.isActive
               \/ Far(reads'[i].mouse, reads'[i].x, reads'[i].y)) =>
                  /\ particles'[i].vx = DampedDrift(particles[i]).vx
                  /\ particles'[i].vy = DampedDrift(particles[i]).vy]_vars

\* an inactive pointer within the interaction radius of a particle
InactivePointerNear ==
    /\ op.name = "animate"
    /\ \E i \in 1..Len(reads) :
           /\ ~reads[i].mouse.isActive
           /\ ~Far(reads[i].mouse, reads[i].x, reads[i].y)

\* the hexadecimal digits by value, in both cases
HexDigitsLower ==
    <<"0", "1", "2", "3", "4", "5", "6", "7", "8", "9", "a", "b", "c", "d", "e", "f">>

HexDigitsUpper ==
    <<"0", "1", "2", "3", "4", "5", "6", "7", "8", "9", "A", "B", "C", "D", "E", "F">>

IsHexDigit(c) == \E v \in 1..16 : c = HexDigitsLower[v] \/ c = HexDigitsUpper[v]

HexValue(c) ==
    (CHOOSE v \in 1..16 : c = HexDigitsLower[v] \/ c = HexDigitsUpper[v]) - 1

\* s without its leading '#', if it has one
HexBody(s) == IF s # <<>> /\ Head(s) = "#" THEN Tail(s) ELSE s

WellFormedHex(s) ==
    /\ Len(HexBody(s)) \in {3, 6}
    /\ \A k \in 1..Len(HexBody(s)) : IsHexDigit(HexBody(s)[k])

\* the six digits s stands for: those of a short form each taken twice
SixDigits(s) ==
    IF Len(HexBody(s)) = 3
    THEN [k \in 1..6 |-> HexBody(s)[(k + 1) \div 2]]
    ELSE HexBody(s)

PairValue(d, k) == 16 * HexValue(d[k]) + HexValue(d[k + 1])

\* C8: hexToRgb returns a triple exactly for an optional '#' followed by 3
\* or by 6 hexadecimal digits of either case, and null for any other
\* string; each channel is the base-16 value of its pair of digits, and a
\* 3-digit string gives what the 6-digit string with every digit doubled
\* gives.
HexAccepted ==
    hexOut # Unset =>
        /\ (hexOut # Null) <=> WellFormedHex(hexIn)
        /\ WellFormedHex(hexIn) =>
               /\ hexOut = [r |-> PairValue(SixDigits(hexIn), 1),
                            g |-> PairValue(SixDigits(hexIn), 3),
                            b |-> PairValue(SixDigits(hexIn), 5)]
               /\ hexOut = hexToRgb(SixDigits(hexIn))
               /\ hexOut = hexToRgb(<<"#">> \o SixDigits(hexIn))
        /\ hexToRgb(<<"#", "F", "F", "F">>) = [r |-> 255, g |-> 255, b |-> 255]
        /\ hexToRgb(<<"#", "F", "F", "F", "F", "F", "F">>)
               = [r |-> 255, g |-> 255, b |-> 255]

\* a short form with a '#' and digits of both cases has been converted
ShorthandConverted ==
    /\ hexIn = <<"#", "F", "a", "0">>
    /\ hexOut = [r |-> 255, g |-> 170, b |-> 0]

\* C9: currentRgb is set at construction to the value of targetRgb, is left
\* as it is by setMood, the pointer events and resize, and an update of a
\* particle whose currentRgb equals its targetRgb leaves currentRgb as it
\* is.
CurrentRgbOnlyEased ==
    [][/\ op'.name = "initParticles" =>
              \A i \in 1..Len(particles') :
                  particles'[i].currentRgb = Clone(particles'[i].targetRgb)
       /\ op'.name \in PointerOps \cup {"touchend", "resize", "setMood"} =>
              \A i \in 1..Len(particles) :
                  particles'[i].currentRgb = particles[i].currentRgb
       /\ (op'.name = "animate" /\ ~op'.threw) =>
              \A i \in 1..Len(particles) :
                  particles[i].currentRgb = Clone(particles[i].targetRgb) =>
                      particles'[i].currentRgb = particles[i].currentRgb]_vars

\* C10: every colour of every palette of the registry is accepted by
\* hexToRgb, no particle's targetRgb or currentRgb is null, whatever keys
\* setMood was called with, and no frame throws on reading a colour.
NoNullColor ==
    /\ \A k \in OwnKeys : Null \notin PaletteRgbs(PALETTES[k])
    /\ \A i \in 1..Len(particles) :
           /\ particles[i].targetRgb # Null
           /\ IsRgb(particles[i].currentRgb)
    /\ op.name = "animate" => ~op.threw

\* a frame has run after a setMood whose key names no palette
FrameAfterForeignKey ==
    /\ op.name = "animate"
    /\ ~op.threw
    /\ ~IsPalette(currentPalette)
    /\ Len(reads) = NumParticles
=============================================================================
